---- MODULE Spec2Model ----
(***************************************************************************)
(* Model of the contact-group authorization service: the account, follows, *)
(* followers and event tables of src/db.rs, the tier propagation of        *)
(* Db::update_contact_list, the start-up sweep of main.rs init, the rate   *)
(* limiter of src/repo.rs and the event_admit handler of main.rs.          *)
(***************************************************************************)
EXTENDS Integers, FiniteSets, Sequences, TLC

(* ---------------------------------------------------------------------- *)
(* Bounds of the model                                                     *)
(* ---------------------------------------------------------------------- *)

\* Identities (hex pubkeys) of the model.
Ids == {"A", "B", "C", "D"}

\* The primary sets (config info.primary_keys) the model starts from.
PrimaryChoices == {{"A"}}

\* Largest contact list a caller hands over.
MaxContacts == 2

\* Spec: largest contact list the relay answers with during init, and the
\* number of calls explored after init.
MaxRelayContacts == 2
MaxOps == 2

\* SpecDeep: the same two bounds, for longer runs after a smaller init.
MaxDeepRelayContacts == 1
MaxDeepOps == 3

\* SpecDb: the same two bounds, when all of the database interface is called.
MaxDbRelayContacts == 1
MaxDbOps == 2

ContactSets == {S \in SUBSET Ids : Cardinality(S) <= MaxContacts}
RelaySets(n) == {S \in SUBSET Ids : Cardinality(S) <= n}

(* ---------------------------------------------------------------------- *)
(* Tier (db.rs: enum Tier), ordered by discriminant: lower is more trusted *)
(* ---------------------------------------------------------------------- *)

Primary == 0
Secondary == 1
Tertiary == 2
Quaternary == 3
Other == 4

Tier == Primary .. Other

raise_tier(t) == IF t = Other THEN Other ELSE t + 1

TierMin(T) == CHOOSE t \in T : \A s \in T : t <= s

(* ---------------------------------------------------------------------- *)
(* State                                                                   *)
(* ---------------------------------------------------------------------- *)

VARIABLES
    primary,         \* Db.primary: the configured primary set
    account,         \* ACCOUNTTABLE: pubkey -> tier, a partial function
    events,          \* EVENTTABLE: pubkey -> set of timestamps
    follows,         \* FOLLOWSTABLE: pubkey -> set of pubkeys it follows
    followers,       \* FOLLOWERSTABLE: pubkey -> set of pubkeys following it
    phase,           \* position of main: "boot", "init", "serving"
    primary_follows, \* init's local: the first-hop set
    ops,             \* number of calls made since init completed
    last,            \* the last completed call: its name, its arguments u
                     \* and S, whether u had a record and what u followed
    now,             \* utils::unix_time(): the wall clock, in seconds
    settings,        \* EventAuthz.settings: tier -> Limitation
    request,         \* the last event_admit request handled
    reply,           \* the reply it got, or the handler's panic
    poisoned,        \* the Repo mutex was poisoned by a panic under the lock
    tasks            \* the event_admit calls running side by side: for each
                     \* its position, its request and its locals

\* The variables of the admission path.
admitVars == <<now, settings, request, reply, poisoned, tasks>>

vars == <<primary, account, events, follows, followers, phase,
          primary_follows, ops, last, now, settings, request, reply,
          poisoned, tasks>>

\* The four tables of the database file, as one value.
DB == [account |-> account, events |-> events, follows |-> follows,
       followers |-> followers]

EmptyTable == [p \in {} |-> Other]
EmptyMultimap == [p \in Ids |-> {}]
EmptyDB == [account |-> EmptyTable, events |-> EmptyMultimap,
            follows |-> EmptyMultimap, followers |-> EmptyMultimap]

(* ---------------------------------------------------------------------- *)
(* Db operations (src/db.rs) as functions of the tables                    *)
(* ---------------------------------------------------------------------- *)

\* Db::read_account: the tier of the record, when there is one.
has_account(d, pubkey) == pubkey \in DOMAIN d.account

\* The record of a call made in the current state.
Call(op, u, S) ==
    [op |-> op, u |-> u, S |-> S, had |-> has_account(DB, u),
     cur |-> follows[u]]

NoCall == [op |-> "none", u |-> "A", S |-> {}, had |-> FALSE, cur |-> {}]

\* Db::write_account: upsert of one record.
write_account(d, pubkey, tier) ==
    [d EXCEPT !.account =
        [p \in DOMAIN d.account \cup {pubkey} |->
            IF p = pubkey THEN tier ELSE d.account[p]]]

\* Db::set_tier: upsert of every key in one transaction.
set_tier(d, keys, tier) ==
    [d EXCEPT !.account =
        [p \in DOMAIN d.account \cup keys |->
            IF p \in keys THEN tier ELSE d.account[p]]]

\* Db::add_follows: follows[pubkey] gains every contact.
add_follows(d, pubkey, contacts) ==
    [d EXCEPT !.follows[pubkey] = @ \cup contacts]

\* Db::add_followers: followers[f] gains pubkey, for every contact f.
add_followers(d, pubkey, contacts) ==
    [d EXCEPT !.followers =
        [f \in Ids |-> IF f \in contacts THEN @[f] \cup {pubkey} ELSE @[f]]]

\* remove_follows that removes nothing.
remove_follows_none(d, pubkey, unfollowed) == d

\* Db::remove_follows: removes (pubkey, follow) from the follows table.
remove_follows(d, pubkey, unfollowed) ==
    [d EXCEPT !.follows[pubkey] = @ \ unfollowed]

\* remove_followers with key and value exchanged.
remove_followers_swapped(d, pubkey, unfollowed) ==
    [d EXCEPT !.followers[pubkey] = @ \ unfollowed]

\* Db::remove_followers: removes (follower, pubkey) from the followers table
\* for every member of the set handed over.
remove_followers(d, pubkey, unfollowed) ==
    [d EXCEPT !.followers =
        [f \in Ids |-> IF f \in unfollowed THEN @[f] \ {pubkey} ELSE @[f]]]

\* Db::set_contact_list: add_followers, then add_follows.
set_contact_list(d, pubkey, contacts) ==
    add_follows(add_followers(d, pubkey, contacts), pubkey, contacts)

\* Db::get_follows and Db::get_followers.
get_follows(d, pubkey) == d.follows[pubkey]
get_followers(d, pubkey) == d.followers[pubkey]

\* Db::get_account_tiers: a follower without a record counts as Other.
get_account_tier(d, pubkey) ==
    IF has_account(d, pubkey) THEN d.account[pubkey] ELSE Other

get_account_tiers(d, accounts) == {get_account_tier(d, a) : a \in accounts}

\* update_account without the test for membership of the primary set.
new_tier_unpinned(d, pubkey, min_tier) ==
    LET tiers == {IF a \in DOMAIN d.account THEN d.account[a] ELSE Other :
                    a \in d.followers[pubkey]}
    IN  IF tiers = {} THEN min_tier
        ELSE LET t == raise_tier(TierMin(tiers))
             IN  IF t < min_tier THEN t ELSE min_tier

\* update_account that writes the hint without looking at the followers.
new_tier_hint_only(d, pubkey, min_tier) ==
    IF pubkey \in primary THEN Primary ELSE min_tier

\* Db::update_account: the tier written for pubkey.
new_tier(d, pubkey, min_tier) ==
    LET tiers == get_account_tiers(d, get_followers(d, pubkey))
    IN  IF pubkey \in primary THEN Primary
        ELSE IF tiers = {} THEN min_tier
        ELSE LET t == raise_tier(TierMin(tiers))
             IN  IF t < min_tier THEN t ELSE min_tier

update_account(d, pubkey, min_tier) ==
    write_account(d, pubkey, new_tier(d, pubkey, min_tier))

\* The inner loop of Db::update_follows: update_account of every followee,
\* in any iteration order of the HashSet; the set of possible results.
RECURSIVE update_accounts(_, _, _)
update_accounts(D, keys, tier) ==
    IF keys = {} THEN D
    ELSE UNION { update_accounts({update_account(d, k, tier) : d \in D},
                                 keys \ {k}, tier) : k \in keys }

\* update_follows sweeping three hops: f, its followees and their followees.
update_follow_three_hops(d, f, min_tier) ==
    LET follows_followers == get_follows(d, f)
        third == UNION {get_follows(d, g) : g \in follows_followers}
    IN  update_accounts(
            update_accounts({update_account(d, f, min_tier)}, follows_followers,
                            raise_tier(min_tier)),
            third, raise_tier(raise_tier(min_tier)))

\* One iteration of the outer loop of Db::update_follows.
update_follow(d, f, min_tier) ==
    LET follows_followers == get_follows(d, f)
    IN  update_accounts({update_account(d, f, min_tier)}, follows_followers,
                        raise_tier(min_tier))

\* Db::update_follows, in any iteration order; the set of possible results.
RECURSIVE update_follows(_, _, _)
update_follows(D, fs, min_tier) ==
    IF fs = {} THEN D
    ELSE UNION { update_follows(UNION {update_follow(d, f, min_tier) : d \in D},
                                fs \ {f}, min_tier) : f \in fs }

\* update_contact_list without the sweep over the unfollowed identities.
update_contact_list_no_drop_sweep(d, pubkey, new_contacts) ==
    IF ~has_account(d, pubkey) THEN {d}
    ELSE LET current_follows == get_follows(d, pubkey)
             d1 == set_contact_list(d, pubkey, new_contacts)
             new_follows == new_contacts \ current_follows
             unfollowed == current_follows \ new_contacts
             d2 == remove_follows(d1, pubkey, unfollowed)
             d3 == remove_followers(d2, pubkey, unfollowed)
             new_follow_tier == raise_tier(d.account[pubkey])
         IN  update_follows({d3}, new_follows, new_follow_tier)

\* update_contact_list without the test for an account record: an identity
\* without one is taken as Other.
update_contact_list_any(d, pubkey, new_contacts) ==
    LET current_follows == get_follows(d, pubkey)
        d1 == set_contact_list(d, pubkey, new_contacts)
        new_follows == new_contacts \ current_follows
        unfollowed == current_follows \ new_contacts
        d2 == remove_follows(d1, pubkey, unfollowed)
        d3 == remove_followers(d2, pubkey, unfollowed)
        new_follow_tier == raise_tier(get_account_tier(d, pubkey))
    IN  update_follows(update_follows({d3}, new_follows, new_follow_tier),
                       unfollowed, Other)

\* Db::update_contact_list: the set of possible resulting tables.
update_contact_list(d, pubkey, new_contacts) ==
    IF ~has_account(d, pubkey) THEN {d}
    ELSE LET current_follows == get_follows(d, pubkey)
             d1 == set_contact_list(d, pubkey, new_contacts)
             new_follows == new_contacts \ current_follows
             unfollowed == current_follows \ new_contacts
             d2 == remove_follows(d1, pubkey, unfollowed)
             d3 == remove_followers(d2, pubkey, unfollowed)
             new_follow_tier == raise_tier(d.account[pubkey])
         IN  update_follows(update_follows({d3}, new_follows, new_follow_tier),
                            unfollowed, Other)

\* Db::clear_tables: every table is emptied in one transaction.
clear_tables(d) == EmptyDB

(* ---------------------------------------------------------------------- *)
(* main.rs init: the start-up sweep                                        *)
(* ---------------------------------------------------------------------- *)

\* Nostr::get_contact_lists: the relay answers with a contact list for some
\* of the keys asked for; a map from those keys to their list, of at most n
\* contacts each.
get_contact_lists(keys, n) ==
    UNION {[K -> RelaySets(n)] : K \in SUBSET keys}

\* The followees named by a map of contact lists.
flat_follows(contact_lists) ==
    UNION {contact_lists[k] : k \in DOMAIN contact_lists}

\* for (pubkey, contacts) in map { repo.update_contacts(&pubkey, contacts) },
\* in any iteration order of the HashMap; the set of possible results.
RECURSIVE update_all(_, _, _)
update_all(D, contact_lists, keys) ==
    IF keys = {} THEN D
    ELSE UNION { update_all(
                   UNION {update_contact_list(d, k, contact_lists[k]) : d \in D},
                   contact_lists, keys \ {k}) : k \in keys }

\* init, lines 161-186: clear, primaries, first hop.
init_primary(d, primary_contacts) ==
    LET d0 == clear_tables(d)
        d1 == set_tier(d0, primary, Primary)
        first_hop == {k \in flat_follows(primary_contacts) : k \notin primary}
        d2 == set_tier(d1, first_hop, Secondary)
    IN  update_all({d2}, primary_contacts, DOMAIN primary_contacts)

\* init, line 190: secondary_contacts.retain(..).
retain_secondary(contacts, first_hop) ==
    [k \in {k \in DOMAIN contacts : k \notin primary \/ k \notin first_hop}
        |-> contacts[k]]

\* init, lines 191-195: the set handed to set_tier(.., Tertiary).
secondary_follows(contacts, first_hop) ==
    {k \in flat_follows(contacts) : k \notin primary \/ k \notin first_hop}

\* init, lines 189-202: second hop.
init_secondary(d, fetched, first_hop) ==
    LET secondary_contacts == retain_secondary(fetched, first_hop)
        d1 == set_tier(d, secondary_follows(secondary_contacts, first_hop),
                       Tertiary)
    IN  update_all({d1}, secondary_contacts, DOMAIN secondary_contacts)

(* ---------------------------------------------------------------------- *)
(* Storage faults: what is committed when a call is aborted                *)
(* ---------------------------------------------------------------------- *)

\* The inner loop of Db::update_follows aborted before one of its
\* update_account calls: the tables committed so far.
RECURSIVE update_accounts_aborted(_, _, _)
update_accounts_aborted(d, keys, tier) ==
    IF keys = {} THEN {}
    ELSE {d} \cup UNION { update_accounts_aborted(update_account(d, k, tier),
                                                  keys \ {k}, tier) : k \in keys }

\* One iteration of the outer loop of Db::update_follows aborted: before the
\* update_account of f, or inside the loop over the followees of f.
update_follow_aborted(d, f, min_tier) ==
    {d} \cup update_accounts_aborted(update_account(d, f, min_tier),
                                     get_follows(d, f), raise_tier(min_tier))

\* Db::update_follows aborted before its last transaction.
RECURSIVE update_follows_aborted(_, _, _)
update_follows_aborted(D, fs, min_tier) ==
    IF fs = {} THEN {}
    ELSE UNION { UNION {update_follow_aborted(d, f, min_tier) : d \in D}
                 \cup update_follows_aborted(
                        UNION {update_follow(d, f, min_tier) : d \in D},
                        fs \ {f}, min_tier) : f \in fs }

\* Db::update_contact_list aborted after set_contact_list, remove_follows and
\* remove_followers committed and before the last update_account commits.
update_contact_list_aborted_in_sweep(d, pubkey, new_contacts) ==
    IF ~has_account(d, pubkey) THEN {}
    ELSE LET current_follows == get_follows(d, pubkey)
             d1 == set_contact_list(d, pubkey, new_contacts)
             new_follows == new_contacts \ current_follows
             unfollowed == current_follows \ new_contacts
             d2 == remove_follows(d1, pubkey, unfollowed)
             d3 == remove_followers(d2, pubkey, unfollowed)
             new_follow_tier == raise_tier(d.account[pubkey])
         IN  update_follows_aborted({d3}, new_follows, new_follow_tier)
             \cup update_follows_aborted(
                    update_follows({d3}, new_follows, new_follow_tier),
                    unfollowed, Other)

\* Db::set_contact_list aborted: before add_followers commits, or between
\* the commit of add_followers and the commit of add_follows.
set_contact_list_aborted(d, pubkey, contacts) ==
    {d, add_followers(d, pubkey, contacts)}

\* Db::update_contact_list aborted at any of its transactions: the tables
\* committed at that point.
update_contact_list_aborted(d, pubkey, new_contacts) ==
    IF ~has_account(d, pubkey) THEN {d}
    ELSE LET current_follows == get_follows(d, pubkey)
             d1 == set_contact_list(d, pubkey, new_contacts)
             unfollowed == current_follows \ new_contacts
             d2 == remove_follows(d1, pubkey, unfollowed)
         IN  set_contact_list_aborted(d, pubkey, new_contacts)
             \cup {d1, d2}
             \cup update_contact_list_aborted_in_sweep(d, pubkey, new_contacts)

(* ---------------------------------------------------------------------- *)
(* Rate limiter (src/repo.rs) and configuration (src/config.rs)            *)
(* ---------------------------------------------------------------------- *)

\* The windows of check_rate_limits, in seconds.
HourRange == 3600
DayRange == 86400

\* The wall clock when the service starts serving, and the instants at which
\* the model looks at it: one hour later, one day later, and one second
\* after that. Two of them are a second, an hour, 23 hours, a day or a day
\* and a second apart.
Epoch == 1000000
Instants == {Epoch + o : o \in {0, HourRange, DayRange, DayRange + 1}}

\* Option<usize>::None of a Limitation, and the caps of the model.
NoLimit == -1
MaxCap == 1
Caps == {NoLimit} \cup (0 .. MaxCap)

\* config::Limitation and its Default.
Limitation ==
    [can_publish : BOOLEAN, events_per_hour : Caps, events_per_day : Caps]

DefaultLimitation ==
    [can_publish |-> FALSE, events_per_hour |-> NoLimit,
     events_per_day |-> NoLimit]

\* config::Settings: one Limitation per tier. Settings::default() when there
\* is no configuration file; otherwise a file that gives the four trusted
\* tiers one policy that may publish and gives Other the same caps without
\* the right to publish.
DefaultSettings == [t \in Tier |-> DefaultLimitation]

SettingsChoices ==
    {DefaultSettings} \cup
    { [t \in Tier |-> IF t = Other THEN [L EXCEPT !.can_publish = FALSE] ELSE L] :
        L \in {l \in Limitation : l.can_publish} }

\* main.rs get_limitation.
get_limitation(s, tier) == s[tier]

\* Db::write_event: EVENTTABLE is a multimap, so the timestamps of one key
\* are a set.
write_event(d, pubkey, timestamp) ==
    [d EXCEPT !.events[pubkey] = @ \cup {timestamp}]

\* Db::get_events.
get_events(d, pubkey) == d.events[pubkey]

\* repo.rs count_events_in_range, with unix_time() = t.
count_events_in_range(evs, range, t) ==
    Cardinality({e \in evs : e > t - range})

\* check_rate_limits that denies only when a count is exactly one above its
\* cap.
check_rate_limits_exact(limits, evs, t) ==
    IF limits.events_per_day # NoLimit \/ limits.events_per_day # NoLimit
    THEN IF /\ limits.events_per_day # NoLimit
            /\ count_events_in_range(evs, DayRange, t) = limits.events_per_day + 1
         THEN [ok |-> FALSE, msg |-> "24 hours limit exhausted"]
         ELSE IF /\ limits.events_per_hour # NoLimit
                 /\ count_events_in_range(evs, HourRange, t)
                      = limits.events_per_hour + 1
         THEN [ok |-> FALSE, msg |-> "Hour limit exhausted"]
         ELSE [ok |-> TRUE, msg |-> ""]
    ELSE [ok |-> TRUE, msg |-> ""]

\* check_rate_limits that returns a message with a passed check too.
check_rate_limits_with_note(limits, evs, t) ==
    IF limits.events_per_day # NoLimit \/ limits.events_per_day # NoLimit
    THEN IF /\ limits.events_per_day # NoLimit
            /\ count_events_in_range(evs, DayRange, t) > limits.events_per_day
         THEN [ok |-> FALSE, msg |-> "24 hours limit exhausted"]
         ELSE IF /\ limits.events_per_hour # NoLimit
                 /\ count_events_in_range(evs, HourRange, t)
                      > limits.events_per_hour
         THEN [ok |-> FALSE, msg |-> "Hour limit exhausted"]
         ELSE [ok |-> TRUE, msg |-> "Within limits"]
    ELSE [ok |-> TRUE, msg |-> ""]

\* Repo::check_rate_limits on the events read for pubkey: (bool, message).
\* The outer test names events_per_day twice, as the source does.
check_rate_limits(limits, evs, t) ==
    IF limits.events_per_day # NoLimit \/ limits.events_per_day # NoLimit
    THEN IF /\ limits.events_per_day # NoLimit
            /\ count_events_in_range(evs, DayRange, t) > limits.events_per_day
         THEN [ok |-> FALSE, msg |-> "24 hours limit exhausted"]
         ELSE IF /\ limits.events_per_hour # NoLimit
                 /\ count_events_in_range(evs, HourRange, t)
                      > limits.events_per_hour
         THEN [ok |-> FALSE, msg |-> "Hour limit exhausted"]
         ELSE [ok |-> TRUE, msg |-> ""]
    ELSE [ok |-> TRUE, msg |-> ""]

\* check_rate_limits calls get_events only inside its outer test.
reads_events(limits) ==
    limits.events_per_day # NoLimit \/ limits.events_per_day # NoLimit

(* ---------------------------------------------------------------------- *)
(* event_admit (src/main.rs)                                               *)
(* ---------------------------------------------------------------------- *)

\* EventRequest.auth_pubkey = None.
NoKey == "none"

\* Event kinds: 3 is the contact list; the other kind of the model.
ContactListKind == 3
OtherKind == 1
Kinds == {OtherKind, ContactListKind}

\* Event.tags: a tag is a vector of strings, here its type and its value.
TagTypes == {"p"}
MaxTags == 1
Tags == {<<ty, id>> : ty \in TagTypes, id \in Ids}
TagLists == UNION {[1 .. n -> Tags] : n \in 0 .. MaxTags}

\* Tags as a client may send them: of type "p" or of another type, with one
\* element only, or with a second element that is no 64-character hex string.
Malformed == "zz"
AnyTagTypes == {"p", "e"}
MaxAnyTags == 2
AnyTags ==
    {<<ty>> : ty \in AnyTagTypes}
      \cup {<<ty, v>> : ty \in AnyTagTypes, v \in Ids \cup {Malformed}}
AnyTagLists == UNION {[1 .. n -> AnyTags] : n \in 0 .. MaxAnyTags}

\* nostr.rs follows_from_event: the second element of every tag.
follows_from_event(tags) == {tags[i][2] : i \in DOMAIN tags}

\* tag.as_vec()[1] in follows_from_event is within bounds for every tag.
indexable(tags) == \A i \in DOMAIN tags : Len(tags[i]) >= 2

\* From<TagEntry> for Tag: Tag::parse(values).unwrap(). Tag::parse (nostr
\* crate) returns Err for a "p" or "e" tag whose second element is no key or
\* event id, and the unwrap panics.
parse_fails(tags) ==
    \E i \in DOMAIN tags : Len(tags[i]) >= 2 /\ tags[i][2] = Malformed

\* The Store operation of the handler that fails, if any: the tier lookup,
\* the read of the event log, the append of the event before its commit, the
\* commit of the append, a transaction of the contact update before its
\* commit, the commit of one.
Faults == {"none", "tier_lookup", "event_read", "event_append",
           "event_commit", "contact_update", "contact_commit"}

\* The requests of the model; an event that is no contact list has no tags.
Requests(F) ==
    {r \in [auth_pubkey : {NoKey} \cup Ids, pubkey : Ids, kind : Kinds,
            tags : TagLists, fault : F] :
        r.kind = ContactListKind \/ r.tags = <<>>}

NoRequest == [auth_pubkey |-> NoKey, pubkey |-> "A", kind |-> OtherKind,
              tags |-> <<>>, fault |-> "none"]

\* EventReply: decision and message; a handler that panics sends no reply.
Permit == [decision |-> "Permit", message |-> ""]
\* event_admit, lines 88-91: Permit with the message of check_rate_limits.
PermitWith(msg) == [decision |-> "Permit", message |-> msg]
Deny(m) == [decision |-> "Deny", message |-> m]
Panic == [decision |-> "Panic", message |-> ""]
NoReply == [decision |-> "None", message |-> ""]

\* event_admit, lines 47-52: the author of the request.
author_of(req) ==
    IF req.auth_pubkey # NoKey THEN req.auth_pubkey ELSE req.pubkey

\* One way the handler can end: the tables committed, the reply, whether the
\* mutex is poisoned, and whether the failing operation was reached.
Outcome(d, r, p, f) == [db |-> d, reply |-> r, poisoned |-> p, faulted |-> f]

\* event_admit, lines 65-86: the contact list of a permitted kind-3 event,
\* applied to the event's pubkey.
admit_contacts(d1, req, msg) ==
    LET contacts == follows_from_event(req.tags)
        pubkey == req.pubkey
    IN  IF parse_fails(req.tags) \/ ~indexable(req.tags)
        THEN {Outcome(d1, Panic, FALSE, FALSE)}
        ELSE IF req.fault = "contact_update"
        THEN {Outcome(a, Panic, FALSE, TRUE) :
                a \in update_contact_list_aborted(d1, pubkey, contacts)}
        ELSE IF req.fault = "contact_commit" /\ has_account(d1, pubkey)
        THEN {Outcome(a, Panic, TRUE, TRUE) :
                a \in update_contact_list_aborted(d1, pubkey, contacts)}
        ELSE {Outcome(d2, PermitWith(msg), FALSE, FALSE) :
                d2 \in update_contact_list(d1, pubkey, contacts)}

\* event_admit, lines 61-92: the rate check passed.
admit_permitted(d, req, msg) ==
    IF req.fault = "event_append" THEN {Outcome(d, Panic, FALSE, TRUE)}
    ELSE IF req.fault = "event_commit" THEN {Outcome(d, Panic, TRUE, TRUE)}
    ELSE LET d1 == write_event(d, author_of(req), now)
         IN  IF req.kind = ContactListKind
             THEN admit_contacts(d1, req, msg)
             ELSE {Outcome(d1, PermitWith(msg), FALSE, FALSE)}

\* event_admit: the ways the handler can end for req on tables d. Every
\* lock().unwrap() panics once the mutex is poisoned; unix_time() is the
\* same instant throughout one request.
event_admit(d, req) ==
    IF poisoned THEN {Outcome(d, Panic, TRUE, FALSE)}
    ELSE IF req.fault = "tier_lookup" THEN {Outcome(d, Panic, FALSE, TRUE)}
    ELSE LET author == author_of(req)
             tier == get_account_tier(d, author)
             limitation == get_limitation(settings, tier)
             checked == check_rate_limits(limitation, get_events(d, author), now)
         IN  IF ~limitation.can_publish
             THEN {Outcome(d, Deny("Not allowed to publish"), FALSE, FALSE)}
             ELSE IF req.fault = "event_read" /\ reads_events(limitation)
             THEN {Outcome(d, Deny("Error"), FALSE, TRUE)}
             ELSE IF checked.ok THEN admit_permitted(d, req, checked.msg)
             ELSE {Outcome(d, Deny(checked.msg), FALSE, FALSE)}

\* Repo::update_contacts run without holding the mutex throughout: the
\* tables as another request may find them between two transactions.
update_contacts_unlocked(d, pubkey, contacts) ==
    update_contact_list(d, pubkey, contacts)
      \cup update_contact_list_aborted(d, pubkey, contacts)

\* Repo::update_contacts: lock(), then Db::update_contact_list; the guard
\* is dropped when the call has returned.
update_contacts(d, pubkey, contacts) ==
    update_contact_list(d, pubkey, contacts)

\* The calls of event_admit that tonic runs side by side. Each takes the
\* Repo mutex once for the tier lookup, once for the read of the events,
\* once for the append and once for the contact update; between two of
\* them any other call may run.
MaxTasks == 4
MaxInFlight == 2

Task(pc, req, limitation, msg, r) ==
    [pc |-> pc, req |-> req, limitation |-> limitation, msg |-> msg,
     reply |-> r]

IdleTask == Task("idle", NoRequest, DefaultLimitation, "", NoReply)

\* A call that has returned: its reply, with the author and kind of its
\* request.
DoneTask(t, r) ==
    Task("done", [NoRequest EXCEPT !.pubkey = t.req.pubkey,
                                   !.kind = t.req.kind],
         DefaultLimitation, "", r)

InFlight == {i \in DOMAIN tasks : tasks[i].pc \notin {"idle", "done"}}

(* ---------------------------------------------------------------------- *)
(* Specification                                                           *)
(* ---------------------------------------------------------------------- *)

Install(d) ==
    /\ account' = d.account
    /\ events' = d.events
    /\ follows' = d.follows
    /\ followers' = d.followers

\* The state after Settings::new, Repo::new and Db::new, for the settings of
\* one of the configuration files in cfgs.
Boot(cfgs) ==
    /\ primary \in PrimaryChoices
    /\ account = EmptyTable
    /\ events = EmptyMultimap
    /\ follows = EmptyMultimap
    /\ followers = EmptyMultimap
    /\ phase = "boot"
    /\ primary_follows = {}
    /\ ops = 0
    /\ last = NoCall
    /\ now = Epoch
    /\ settings \in cfgs
    /\ request = NoRequest
    /\ reply = NoReply
    /\ poisoned = FALSE
    /\ tasks = [i \in 1 .. MaxTasks |-> IdleTask]

\* Without a configuration file.
Init == Boot({DefaultSettings})

\* With a configuration file.
InitAdmit == Boot(SettingsChoices)

\* init up to the first-hop loop (main.rs 161-186).
InitPrimary(n) ==
    /\ phase = "boot"
    /\ \E primary_contacts \in get_contact_lists(primary, n) :
         /\ \E d \in init_primary(DB, primary_contacts) : Install(d)
         /\ primary_follows' =
              {k \in flat_follows(primary_contacts) : k \notin primary}
    /\ phase' = "init"
    /\ UNCHANGED <<primary, ops, last, admitVars>>

\* init from the second fetch to its end (main.rs 189-227).
InitSecondary(n) ==
    /\ phase = "init"
    /\ \E fetched \in get_contact_lists(primary_follows, n) :
         \E d \in init_secondary(DB, fetched, primary_follows) : Install(d)
    /\ phase' = "serving"
    /\ UNCHANGED <<primary, primary_follows, ops, last, admitVars>>

\* Repo::update_contacts -> Db::update_contact_list(u, S).
UpdateContacts(u, S) ==
    /\ phase = "serving"
    /\ ~poisoned
    /\ \E d \in update_contact_list(DB, u, S) : Install(d)
    /\ ops' = ops + 1
    /\ last' = Call("update", u, S)
    /\ UNCHANGED <<primary, phase, primary_follows, admitVars>>

\* Repo::set_contact_list -> Db::set_contact_list(u, S).
SetContactList(u, S) ==
    /\ phase = "serving"
    /\ ~poisoned
    /\ Install(set_contact_list(DB, u, S))
    /\ ops' = ops + 1
    /\ last' = Call("set", u, S)
    /\ UNCHANGED <<primary, phase, primary_follows, admitVars>>

\* Repo::clear_accounts -> Db::clear_tables.
ClearTables ==
    /\ phase = "serving"
    /\ ~poisoned
    /\ Install(clear_tables(DB))
    /\ ops' = ops + 1
    /\ last' = [NoCall EXCEPT !.op = "clear"]
    /\ UNCHANGED <<primary, phase, primary_follows, admitVars>>

\* The service: init, then contact-list updates.
Next ==
    \/ InitPrimary(MaxRelayContacts)
    \/ InitSecondary(MaxRelayContacts)
    \/ (ops < MaxOps /\ \E u \in Ids, S \in ContactSets : UpdateContacts(u, S))

Spec == Init /\ [][Next]_vars

\* The service with a smaller init and more contact-list updates.
NextDeep ==
    \/ InitPrimary(MaxDeepRelayContacts)
    \/ InitSecondary(MaxDeepRelayContacts)
    \/ (ops < MaxDeepOps
          /\ \E u \in Ids, S \in ContactSets : UpdateContacts(u, S))

SpecDeep == Init /\ [][NextDeep]_vars

\* The database interface used directly: init, then any of the three calls.
DbCall ==
    \/ \E u \in Ids, S \in ContactSets : UpdateContacts(u, S)
    \/ \E u \in Ids, S \in ContactSets : SetContactList(u, S)
    \/ ClearTables

NextDb ==
    \/ InitPrimary(MaxDbRelayContacts)
    \/ InitSecondary(MaxDbRelayContacts)
    \/ (ops < MaxDbOps /\ DbCall)

SpecDb == Init /\ [][NextDb]_vars

\* One event_admit request, handled from its first line to its reply.
Admit(req) ==
    /\ phase = "serving"
    /\ \E o \in event_admit(DB, req) :
         /\ req.fault = "none" \/ o.faulted
         /\ Install(o.db)
         /\ reply' = o.reply
         /\ poisoned' = o.poisoned
    /\ request' = req
    /\ ops' = ops + 1
    /\ last' = Call("admit", req.pubkey,
                     IF indexable(req.tags) /\ ~parse_fails(req.tags)
                     THEN follows_from_event(req.tags)
                     ELSE {})
    /\ UNCHANGED <<primary, phase, primary_follows, now, settings, tasks>>

\* The wall clock moves on between two requests.
Tick ==
    /\ phase = "serving"
    /\ \E t \in Instants : t > now /\ now' = t
    /\ UNCHANGED <<primary, account, events, follows, followers, phase,
                   primary_follows, ops, last, settings, request, reply,
                   poisoned, tasks>>

\* Repo::update_contacts(u, S) aborted by a storage fault: an operation that
\* returns Err, or a commit whose unwrap panics under the lock.
FailedUpdateContacts(u, S, commit) ==
    /\ phase = "serving"
    /\ ~poisoned
    /\ commit => has_account(DB, u)
    /\ \E d \in update_contact_list_aborted(DB, u, S) : Install(d)
    /\ poisoned' = commit
    /\ ops' = ops + 1
    /\ last' = Call("update_aborted", u, S)
    /\ UNCHANGED <<primary, phase, primary_follows, now, settings, request,
                   reply, tasks>>

\* Repo::set_contact_list(u, S) aborted by a storage fault.
FailedSetContactList(u, S, commit) ==
    /\ phase = "serving"
    /\ ~poisoned
    /\ \E d \in set_contact_list_aborted(DB, u, S) : Install(d)
    /\ poisoned' = commit
    /\ ops' = ops + 1
    /\ last' = Call("set_aborted", u, S)
    /\ UNCHANGED <<primary, phase, primary_follows, now, settings, request,
                   reply, tasks>>

\* The service answering admit requests for events that are no contact
\* lists while the clock runs, without storage faults.
MaxAdmitRelayContacts == 1
MaxAdmitOps == 3

RateRequests == {r \in Requests({"none"}) : r.kind = OtherKind}

NextAdmit ==
    \/ InitPrimary(MaxAdmitRelayContacts)
    \/ InitSecondary(MaxAdmitRelayContacts)
    \/ Tick
    \/ (ops < MaxAdmitOps /\ \E req \in RateRequests : Admit(req))

SpecAdmit == InitAdmit /\ [][NextAdmit]_vars

\* The service and the database interface under storage faults: one call
\* that may fail, and the requests that follow a poisoned mutex.
MaxFaultRelayContacts == 1
MaxFaultOps == 1
MaxPoisonedOps == 2

\* The configuration files of SpecFault: those without a cap per hour.
FaultSettings == {s \in SettingsChoices : s[Primary].events_per_hour = NoLimit}

InitFault == Boot(FaultSettings)

FaultCall ==
    \/ \E req \in Requests(Faults) : Admit(req)
    \/ \E u \in Ids, S \in ContactSets : UpdateContacts(u, S)
    \/ \E u \in Ids, S \in ContactSets, commit \in BOOLEAN :
         FailedUpdateContacts(u, S, commit)
    \/ \E u \in Ids, S \in ContactSets, commit \in BOOLEAN :
         FailedSetContactList(u, S, commit)

NextFault ==
    \/ InitPrimary(MaxFaultRelayContacts)
    \/ InitSecondary(MaxFaultRelayContacts)
    \/ (ops < MaxFaultOps /\ FaultCall)
    \/ (poisoned /\ ops < MaxPoisonedOps /\ \E req \in RateRequests : Admit(req))

SpecFault == InitFault /\ [][NextFault]_vars

\* The service answering admit requests for contact lists with tags of any
\* shape, under a configuration that lets the trusted tiers publish without
\* caps.
MaxTagRelayContacts == 1
MaxTagOps == 1

TagSettings ==
    {s \in SettingsChoices :
        /\ s[Primary].can_publish
        /\ s[Primary].events_per_hour = NoLimit
        /\ s[Primary].events_per_day = NoLimit}

TagRequests ==
    [auth_pubkey : {NoKey}, pubkey : Ids, kind : {ContactListKind},
     tags : AnyTagLists, fault : {"none"}]

InitTags == Boot(TagSettings)

NextTags ==
    \/ InitPrimary(MaxTagRelayContacts)
    \/ InitSecondary(MaxTagRelayContacts)
    \/ (ops < MaxTagOps /\ \E req \in TagRequests : Admit(req))

SpecTags == InitTags /\ [][NextTags]_vars

\* A request arrives and its handler starts, lines 40-52.
TaskStart(i, req) ==
    /\ phase = "serving"
    /\ tasks[i].pc = "idle"
    /\ \A j \in 1 .. i - 1 : tasks[j].pc # "idle"
    /\ Cardinality(InFlight) < MaxInFlight
    /\ tasks' = [tasks EXCEPT ![i] =
                   Task("tier", req, DefaultLimitation, "", NoReply)]
    /\ UNCHANGED <<primary, account, events, follows, followers, phase,
                   primary_follows, ops, last, now, settings, request, reply,
                   poisoned>>

\* Lines 54-59 and 106-111: the tier lookup under the lock, the policy of
\* the tier, and the denial when it may not publish.
TaskTier(i) ==
    /\ tasks[i].pc = "tier"
    /\ LET t == tasks[i]
           tier == get_account_tier(DB, author_of(t.req))
           limitation == get_limitation(settings, tier)
       IN  tasks' = [tasks EXCEPT ![i] =
                       IF limitation.can_publish
                       THEN Task("check", t.req, limitation, "", NoReply)
                       ELSE DoneTask(t, Deny("Not allowed to publish"))]
    /\ UNCHANGED <<primary, account, events, follows, followers, phase,
                   primary_follows, ops, last, now, settings, request, reply,
                   poisoned>>

\* Line 60 and lines 93-98: check_rate_limits, which reads the events under
\* the lock, and the denial when a cap is exceeded.
TaskCheck(i) ==
    /\ tasks[i].pc = "check"
    /\ LET t == tasks[i]
           checked == check_rate_limits(
                          t.limitation, get_events(DB, author_of(t.req)), now)
       IN  tasks' = [tasks EXCEPT ![i] =
                       IF checked.ok
                       THEN Task("append", t.req, DefaultLimitation,
                                 checked.msg, NoReply)
                       ELSE DoneTask(t, Deny(checked.msg))]
    /\ UNCHANGED <<primary, account, events, follows, followers, phase,
                   primary_follows, ops, last, now, settings, request, reply,
                   poisoned>>

\* Line 63: add_event under the lock; an event that is no contact list is
\* then permitted, lines 88-91.
TaskAppend(i) ==
    /\ tasks[i].pc = "append"
    /\ LET t == tasks[i]
       IN  /\ Install(write_event(DB, author_of(t.req), now))
           /\ tasks' = [tasks EXCEPT ![i] =
                          IF t.req.kind = ContactListKind
                          THEN [t EXCEPT !.pc = "update"]
                          ELSE DoneTask(t, PermitWith(t.msg))]
    /\ UNCHANGED <<primary, phase, primary_follows, ops, last, now, settings,
                   request, reply, poisoned>>

\* Lines 65-91: the contact list of a kind-3 event, applied under the lock
\* to the event's pubkey, and the Permit.
TaskUpdate(i) ==
    /\ tasks[i].pc = "update"
    /\ LET t == tasks[i]
       IN  /\ \E d \in update_contacts(DB, t.req.pubkey,
                                       follows_from_event(t.req.tags)) :
                 Install(d)
           /\ tasks' = [tasks EXCEPT ![i] = DoneTask(t, PermitWith(t.msg))]
    /\ UNCHANGED <<primary, phase, primary_follows, ops, last, now, settings,
                   request, reply, poisoned>>

\* The service answering the admit requests of the primary identities side
\* by side, within one second and without storage faults, under the
\* configuration files that set a cap per day and none per hour.
MaxTaskRelayContacts == 1
TaskContacts == {"B", "C"}

TaskSettings ==
    {s \in SettingsChoices :
        /\ s[Primary].can_publish
        /\ s[Primary].events_per_hour = NoLimit
        /\ s[Primary].events_per_day # NoLimit}

TaskRequests ==
    {r \in Requests({"none"}) :
        /\ r.auth_pubkey = NoKey
        /\ r.pubkey \in primary
        /\ follows_from_event(r.tags) \subseteq TaskContacts}

InitTasks == Boot(TaskSettings)

NextTasks ==
    \/ InitPrimary(MaxTaskRelayContacts)
    \/ InitSecondary(MaxTaskRelayContacts)
    \/ \E i \in 1 .. MaxTasks, req \in TaskRequests : TaskStart(i, req)
    \/ \E i \in 1 .. MaxTasks : TaskTier(i)
    \/ \E i \in 1 .. MaxTasks : TaskCheck(i)
    \/ \E i \in 1 .. MaxTasks : TaskAppend(i)
    \/ \E i \in 1 .. MaxTasks : TaskUpdate(i)

SpecTasks == InitTasks /\ [][NextTasks]_vars

(* ---------------------------------------------------------------------- *)
(* Claims                                                                  *)
(* ---------------------------------------------------------------------- *)

Serving == phase = "serving"

\* I1 on a value of the tables.
EdgesAgree(d) ==
    \A u \in Ids, v \in Ids : v \in d.follows[u] <=> u \in d.followers[v]

\* C1: after init and after every completed set_contact_list,
\* update_contact_list or clear_tables, v is in follows[u] exactly when u is
\* in followers[v].
C1_EdgeTablesAgree == Serving => EdgesAgree(DB)

\* A completed update_contact_list of one identity, in a graph where another
\* identity has followees too.
C1_Witness ==
    /\ last.op = "update"
    /\ ops = MaxDbOps
    /\ follows[last.u] = last.S
    /\ \E v \in Ids : last.u \in followers[v]
    /\ \E u \in Ids \ {last.u} : follows[u] # {}

\* The most trusted tier among the followers of q, Other without followers.
BestFollower(d, q) ==
    IF get_followers(d, q) = {} THEN Other
    ELSE TierMin(get_account_tiers(d, get_followers(d, q)))

\* What the graph supports for q: demote of its best follower's tier.
Supported(d, q) == raise_tier(BestFollower(d, q))

\* C2: every identity outside the primary set that has a follower is at
\* least as trusted as demote of its most trusted follower's tier.
C2_FollowedNotBelowSupport ==
    Serving =>
        \A q \in Ids \ primary :
            get_followers(DB, q) # {} =>
                get_account_tier(DB, q) <= Supported(DB, q)

NoSelfLoops(d) == \A u \in Ids : u \notin d.follows[u]

\* C3: no identity outside the primary set is more trusted than demote of
\* its most trusted follower's tier (Other without followers); stated for
\* tables without self-loops, so that mutual follows and chains decide it.
C3_NotAboveSupport ==
    (Serving /\ NoSelfLoops(DB)) =>
        \A q \in Ids \ primary :
            get_account_tier(DB, q) >= Supported(DB, q)

\* C4: every identity of the primary set that has an account record has
\* tier Primary.
C4_PrimaryPinned ==
    Serving =>
        \A p \in primary : has_account(DB, p) => account[p] = Primary

\* A primary identity followed by an identity outside the primary set whose
\* tier is not Primary, after a completed update_contact_list.
C4_Witness ==
    /\ Serving
    /\ last.op = "update"
    /\ \E p \in primary, f \in Ids \ primary :
         /\ f \in followers[p]
         /\ has_account(DB, p)
         /\ get_account_tier(DB, f) > Primary

\* C5: every identity with an account record, outside the primary set and
\* without followers, has tier Other.
C5_UnfollowedIsOther ==
    Serving =>
        \A q \in Ids \ primary :
            (has_account(DB, q) /\ get_followers(DB, q) = {}) =>
                account[q] = Other

\* An identity outside the primary set that has a record and followees but
\* no follower, after a completed update_contact_list of another identity.
C5_Witness ==
    /\ Serving
    /\ last.op = "update"
    /\ \E q \in Ids \ primary :
         /\ q # last.u
         /\ has_account(DB, q)
         /\ get_followers(DB, q) = {}
         /\ get_follows(DB, q) # {}

\* C6: after update_contact_list(u, S) or set_contact_list(u, S) with u in
\* S, neither edge table holds the self-loop of u.
C6_NoSelfLoop ==
    (Serving /\ last.op \in {"update", "set"} /\ last.u \in last.S) =>
        (last.u \notin follows[last.u] /\ last.u \notin followers[last.u])

\* C7 as stated: after update_contact_list(u, S), follows_of(u) is S, for
\* every identity u.
C7_FollowsIsS_Any ==
    (Serving /\ last.op = "update") => follows[last.u] = last.S

\* C7 amended: after update_contact_list(u, S) for an identity u that has an
\* account record, follows_of(u) is S.
C7_FollowsIsS ==
    (Serving /\ last.op = "update" /\ last.had) => follows[last.u] = last.S

\* update_contact_list(u, S) of an identity with a record has dropped one
\* followee, kept one and added one.
C7_Witness ==
    /\ Serving
    /\ last.op = "update"
    /\ last.had
    /\ last.cur \ last.S # {}
    /\ last.cur \cap last.S # {}
    /\ last.S \ last.cur # {}
    /\ follows[last.u] = last.S

\* A step that is a completed update_contact_list of an identity that has
\* an account record.
UpdateStep ==
    /\ phase = "serving"
    /\ last'.op = "update"
    /\ ops' = ops + 1
    /\ has_account(DB, last'.u)

DBnext == [account |-> account', events |-> events', follows |-> follows',
           followers |-> followers']

\* C8: after update_contact_list(u, S) of an identity u of tier t, every
\* newly followed v outside the primary set whose only follower is u has
\* tier demote(t), and followers_of(v) is {u}.
C8_Step ==
    UpdateStep =>
        \A v \in last'.S \ follows[last'.u] :
            (v \notin primary /\ followers[v] \ {last'.u} = {}) =>
                /\ has_account(DBnext, v)
                /\ account'[v] = raise_tier(account[last'.u])
                /\ followers'[v] = {last'.u}

C8_NewFolloweeTier == [][C8_Step]_vars

\* The identities update_contact_list(u, S) drops that the claim C9 is
\* about: outside the primary set, with no follower other than u.
Dropped ==
    {v \in follows[last'.u] \ last'.S :
        v \notin primary /\ followers[v] \ {last'.u} = {}}

\* C9: after update_contact_list(u, S) drops such a v, v has tier Other, u
\* is not in followers_of(v), every followee of v whose only follower is v
\* has tier Other, and the followees u kept retain their tier. The followees
\* of v are taken outside the primary set, whose members stay Primary.
C9_Step ==
    UpdateStep =>
        \A v \in Dropped :
            /\ get_account_tier(DBnext, v) = Other
            /\ last'.u \notin followers'[v]
            /\ \A w \in follows'[v] \ primary :
                 followers'[w] = {v} => get_account_tier(DBnext, w) = Other
            /\ \A k \in follows[last'.u] \cap last'.S :
                 get_account_tier(DBnext, k) = get_account_tier(DB, k)

C9_DropDemotes == [][C9_Step]_vars

\* The tables after update_contact_list(u, S \ {v}) and then
\* update_contact_list(u, S), for S the followees of u, in every iteration
\* order of both calls.
UnfollowRefollow(d, u, v) ==
    UNION {update_contact_list(d1, u, get_follows(d, u)) :
             d1 \in update_contact_list(d, u, get_follows(d, u) \ {v})}

\* C10: unfollow then refollow restores every tier and both edge tables;
\* stated for tables without self-loops.
C10_RoundTrip ==
    (Serving /\ NoSelfLoops(DB)) =>
        \A u \in Ids :
            has_account(DB, u) =>
                \A v \in get_follows(DB, u) :
                    \A d2 \in UnfollowRefollow(DB, u, v) :
                        /\ d2.account = account
                        /\ d2.follows = follows
                        /\ d2.followers = followers

(* ---------------------------------------------------------------------- *)
(* Claims on the rate limiter and on event_admit                           *)
(* ---------------------------------------------------------------------- *)

\* A step that is one event_admit request handled.
AdmitStep ==
    /\ phase = "serving"
    /\ last'.op = "admit"
    /\ ops' = ops + 1

\* The policy event_admit looks up for the author of the request it handles
\* in this step.
PolicyNext == get_limitation(settings, get_account_tier(DB, author_of(request')))

\* The recorded timestamps of evs in the closed window [t - range, t].
WindowCount(evs, range, t) ==
    Cardinality({e \in evs : t - range <= e /\ e <= t})

\* The counts of the author's recorded events when the request arrives.
HourCountNext == WindowCount(events[author_of(request')], HourRange, now)
DayCountNext == WindowCount(events[author_of(request')], DayRange, now)

DayExceededNext ==
    /\ PolicyNext.events_per_day # NoLimit
    /\ DayCountNext > PolicyNext.events_per_day

HourExceededNext ==
    /\ PolicyNext.events_per_hour # NoLimit
    /\ HourCountNext > PolicyNext.events_per_hour

\* C11: a request of an author whose policy may publish and sets a cap per
\* hour is denied with "Hour limit exhausted" when the author's events of
\* the last hour exceed the cap and the day limit is not exceeded, also
\* without a cap per day.
C11_Step ==
    (AdmitStep /\ PolicyNext.can_publish /\ HourExceededNext
        /\ ~DayExceededNext)
      => reply' = Deny("Hour limit exhausted")

C11_HourLimitDenies == [][C11_Step]_vars

\* C12: every Permit raises by exactly one the number of events the limiter
\* counts for the author in the hour and in the day that end now.
C12_Step ==
    (AdmitStep /\ reply'.decision = "Permit") =>
        LET a == author_of(request')
        IN  /\ count_events_in_range(events'[a], HourRange, now)
                 = count_events_in_range(events[a], HourRange, now) + 1
            /\ count_events_in_range(events'[a], DayRange, now)
                 = count_events_in_range(events[a], DayRange, now) + 1

C12_PermitCountsOne == [][C12_Step]_vars

\* C13: for a policy that may publish, a count above a cap that is set
\* denies; counts at or below every cap that is set admit, a count equal to
\* its cap included.
C13_Step ==
    (AdmitStep /\ PolicyNext.can_publish) =>
        /\ (DayExceededNext \/ HourExceededNext) => reply'.decision = "Deny"
        /\ (~DayExceededNext /\ ~HourExceededNext) => reply' = Permit

C13_StrictlyGreater == [][C13_Step]_vars

\* C14: a policy that may not publish denies with "Not allowed to publish"
\* whatever its caps and the author's events are; a policy that may publish
\* and has both counts above their caps denies with "24 hours limit
\* exhausted".
C14_Step ==
    AdmitStep =>
        /\ ~PolicyNext.can_publish => reply' = Deny("Not allowed to publish")
        /\ (PolicyNext.can_publish /\ DayExceededNext /\ HourExceededNext)
              => reply' = Deny("24 hours limit exhausted")

C14_DecisionOrder == [][C14_Step]_vars

\* C15: for the limits of every tier and the clock of the state, if
\* check_rate_limits denies for a set of timestamps E, it denies for E with
\* one more timestamp.
C15_Monotone ==
    \A limits \in {settings[tier] : tier \in Tier} :
        \A E \in SUBSET Instants, t \in Instants :
            ~check_rate_limits(limits, E, now).ok
                => ~check_rate_limits(limits, E \cup {t}, now).ok

\* A request denied by a limit, for an author whose log can still grow by a
\* timestamp, and is denied with it too.
C15_Witness ==
    /\ last.op = "admit"
    /\ reply \in {Deny("Hour limit exhausted"), Deny("24 hours limit exhausted")}
    /\ \E t \in Instants \ events[author_of(request)] :
         ~check_rate_limits(
              settings[get_account_tier(DB, author_of(request))],
              events[author_of(request)] \cup {t}, now).ok

\* C16: the contact list of a permitted kind-3 event is applied to the
\* author of the request, whose tier was looked up and whose event was
\* appended: the tables after the reply are those of update_contact_list for
\* the author on the tables with the event appended.
C16_Step ==
    (AdmitStep /\ reply' = Permit /\ request'.kind = ContactListKind) =>
        LET author == author_of(request')
        IN  DBnext \in update_contact_list(write_event(DB, author, now), author,
                                           follows_from_event(request'.tags))

C16_UpdatesAuthor == [][C16_Step]_vars

\* C17: a request during which a Store operation fails is answered Deny
\* with message "Error".
C17_FaultDeniesError ==
    (last.op = "admit" /\ request.fault # "none") => reply = Deny("Error")

\* C18: a permitted kind-3 event whose contact update fails is answered
\* Permit, and its admission timestamp is in the author's event log.
C18_UpdateFaultPermits ==
    (last.op = "admit" /\ request.fault \in {"contact_update", "contact_commit"})
        => /\ reply = Permit
           /\ now \in events[author_of(request)]

\* A step that is update_contact_list or set_contact_list aborted by a
\* storage fault.
AbortedStep ==
    /\ phase = "serving"
    /\ last'.op \in {"update_aborted", "set_aborted"}
    /\ ops' = ops + 1

\* C19: from tables that satisfy I1, an aborted update_contact_list or
\* set_contact_list leaves tables that satisfy I1.
C19_Step == (AbortedStep /\ EdgesAgree(DB)) => EdgesAgree(DBnext)

C19_AbortKeepsEdges == [][C19_Step]_vars

\* C20: for every u and S, when update_contact_list(u, S) is aborted after
\* its edges are written and before its last tier is, a complete
\* update_contact_list(u, S) on what was committed ends with the account
\* table of some complete run on the tables before the fault.
C20_RetryConverges ==
    (Serving /\ ops = 0) =>
        \A u \in Ids, S \in ContactSets :
            \A a \in update_contact_list_aborted_in_sweep(DB, u, S) :
                \A d2 \in update_contact_list(a, u, S) :
                    \E d1 \in update_contact_list(DB, u, S) :
                        d2.account = d1.account

(* ---------------------------------------------------------------------- *)
(* Claims on the single operations and on init                             *)
(* ---------------------------------------------------------------------- *)

\* A step that is a completed update_contact_list, of any identity.
AnyUpdateStep ==
    /\ phase = "serving"
    /\ last'.op = "update"
    /\ ops' = ops + 1

\* C21: update_contact_list(u, S) of an identity u without an account record
\* completes and leaves the four tables as they were.
C21_Step == (AnyUpdateStep /\ ~has_account(DB, last'.u)) => DBnext = DB

C21_NoAccountNoChange == [][C21_Step]_vars

\* A completed update_contact_list(u, S) with S not empty, of an identity
\* without a record, while other identities have records and edges.
C21_Witness ==
    /\ Serving
    /\ last.op = "update"
    /\ ~last.had
    /\ last.S # {}
    /\ follows[last.u] = {}
    /\ \E v \in Ids : follows[v] # {}

\* The tier recompute(p, hint) is to write: Primary in the primary set, else
\* the more trusted of hint and demote of the best follower's tier.
Recomputed(d, p, hint) ==
    IF p \in primary THEN Primary
    ELSE IF Supported(d, p) < hint THEN Supported(d, p) ELSE hint

\* C26: for every p and hint, update_account(p, hint) leaves the tables as
\* they were but for the record of p, which holds Recomputed(p, hint).
C26_RecomputeWritesOne ==
    Serving =>
        \A p \in Ids, hint \in Tier :
            LET d2 == update_account(DB, p, hint)
            IN  /\ DOMAIN d2.account = DOMAIN account \cup {p}
                /\ d2.account[p] = Recomputed(DB, p, hint)
                /\ \A q \in DOMAIN account \ {p} : d2.account[q] = account[q]
                /\ d2.follows = follows
                /\ d2.followers = followers
                /\ d2.events = events

\* An identity outside the primary set to which a hint of Other gives a
\* more trusted tier through a follower, and one inside the primary set.
C26_Witness ==
    /\ Serving
    /\ \E p \in Ids \ primary :
         /\ get_followers(DB, p) # {}
         /\ update_account(DB, p, Other).account[p] < Other
    /\ \E p \in primary : has_account(DB, p)

\* The identities whose tier update_contact_list(u, S) may change: those
\* added to or removed from the followees of u, and their followees.
Swept ==
    LET added == last'.S \ follows[last'.u]
        removed == follows[last'.u] \ last'.S
    IN  added \cup removed
        \cup UNION {follows[v] \cup follows'[v] : v \in added \cup removed}

\* C27: a completed update_contact_list(u, S) changes follows only at u,
\* changes followers only by u, changes the tier of swept identities only,
\* and leaves the event table as it was.
C27_Step ==
    (AnyUpdateStep /\ has_account(DB, last'.u)) =>
        /\ \A v \in Ids \ {last'.u} : follows'[v] = follows[v]
        /\ \A v \in Ids : followers'[v] \ {last'.u} = followers[v] \ {last'.u}
        /\ \A q \in Ids \ Swept :
             /\ has_account(DBnext, q) <=> has_account(DB, q)
             /\ get_account_tier(DBnext, q) = get_account_tier(DB, q)
        /\ events' = events

C27_TwoHopSweep == [][C27_Step]_vars

\* A completed update_contact_list in a graph with a cycle and with an
\* identity three hops from a followee that u adds or drops.
C27_Witness ==
    /\ Serving
    /\ last.op = "update"
    /\ last.had
    /\ last.S # last.cur
    /\ \E v \in (last.S \ last.cur) \cup (last.cur \ last.S) :
         \E w \in follows[v] \ {v} : \E x \in Ids \ {v, last.u} :
            /\ x \in follows[w]
            /\ x \notin follows[v]
            /\ x \notin last.S \cup last.cur
            /\ has_account(DB, x)
    /\ \E a \in Ids : \E b \in Ids \ {a} : b \in follows[a] /\ a \in follows[b]

\* The identities first reached one, two and three hops from the primary
\* set in the graph G.
Hop1(G) == UNION {G[p] : p \in primary} \ primary
Hop2(G) == UNION {G[x] : x \in Hop1(G)} \ (primary \cup Hop1(G))
Hop3(G) ==
    UNION {G[x] : x \in Hop2(G)} \ (primary \cup Hop1(G) \cup Hop2(G))

HopTier(G, q) ==
    IF q \in primary THEN Primary
    ELSE IF q \in Hop1(G) THEN Secondary
    ELSE IF q \in Hop2(G) THEN Tertiary
    ELSE IF q \in Hop3(G) THEN Quaternary
    ELSE Other

\* The contact lists known when init ends: those of the primary set, stored
\* by the first loop, and those the relay answers with for the first hop.
Fetched(lists) ==
    [k \in Ids |-> IF k \in DOMAIN lists THEN lists[k] ELSE follows[k]]

\* C22: whatever the relay answers for the first hop, init ends with the
\* fetched edges stored and with every identity at the tier of its hop
\* distance from the primary set.
C22_InitTiersAreHops ==
    phase = "init" =>
        \A lists \in get_contact_lists(primary_follows, MaxRelayContacts) :
            \A d \in init_secondary(DB, lists, primary_follows) :
                /\ d.follows = Fetched(lists)
                /\ \A q \in Ids :
                     get_account_tier(d, q) = HopTier(Fetched(lists), q)

\* C30: whatever the relay answers for the first hop, the set init hands to
\* set_tier(.., Tertiary) holds no identity of the primary set and none of
\* the first hop.
C30_TertiaryExcludesHigher ==
    phase = "init" =>
        \A lists \in get_contact_lists(primary_follows, MaxRelayContacts) :
            secondary_follows(retain_secondary(lists, primary_follows),
                              primary_follows)
              \cap (primary \cup primary_follows) = {}

\* C29: at every instant the day count and the hour count of every author
\* are the numbers of recorded timestamps t with now - window <= t <= now.
C29_ClosedWindowCounts ==
    phase = "serving" =>
        \A a \in Ids : \A window \in {DayRange, HourRange} :
            count_events_in_range(get_events(DB, a), window, now)
              = WindowCount(get_events(DB, a), window, now)

\* The messages a reply may carry.
Messages == {"Not allowed to publish", "Hour limit exhausted",
             "24 hours limit exhausted", "Error"}

\* C24: a reply of event_admit is Permit without a message or Deny with one
\* of the four messages; no other decision is sent (a handler that panics
\* sends no reply).
C24_ReplyShapes ==
    reply.decision \notin {"None", "Panic"} =>
        \/ reply = Permit
        \/ reply.decision = "Deny" /\ reply.message \in Messages

\* Replies of each kind have been sent: here a denial by the hour cap.
C24_Witness ==
    /\ request.fault = "none"
    /\ reply = Deny("Hour limit exhausted")

\* The second elements of the tags of type "p" whose second element is a
\* valid key.
PFollowees(tags) ==
    {tags[i][2] : i \in {j \in DOMAIN tags : /\ tags[j][1] = "p"
                                            /\ Len(tags[j]) >= 2
                                            /\ tags[j][2] \in Ids}}

\* C25: a contact list that passes the publish and rate checks is permitted
\* and replaces the followees of its pubkey by the second elements of its
\* well-formed "p" tags, whatever other tags it carries.
C25_Step ==
    (/\ AdmitStep
     /\ request'.kind = ContactListKind
     /\ request'.auth_pubkey = NoKey
     /\ request'.fault = "none"
     /\ ~poisoned
     /\ reply'.decision # "Deny") =>
        /\ reply' = Permit
        /\ DBnext \in update_contact_list(
                          write_event(DB, request'.pubkey, now),
                          request'.pubkey, PFollowees(request'.tags))

C25_OnlyValidPTags == [][C25_Step]_vars

\* The Permit decisions sent so far to requests of author a. The clock does
\* not move in SpecTasks, so all of them fall in one window.
Permits(a) ==
    Cardinality({i \in DOMAIN tasks : /\ tasks[i].pc = "done"
                                      /\ author_of(tasks[i].req) = a
                                      /\ tasks[i].reply.decision = "Permit"})

\* C23: with at most MaxInFlight requests of an author in flight at a time,
\* the Permit decisions of one window are at most N + MaxInFlight for each
\* cap N of the author's policy, in every interleaving of the lock
\* acquisitions.
C23_BurstBounded ==
    phase = "serving" =>
        \A a \in Ids :
            LET limits == get_limitation(settings, get_account_tier(DB, a))
            IN  \A N \in {limits.events_per_hour, limits.events_per_day}
                           \ {NoLimit} :
                    Permits(a) <= N + MaxInFlight

\* C28: while requests are served side by side the two edge tables agree in
\* every state, the tables change only in an append or a contact update,
\* and a contact update takes them in one step from the tables before it to
\* a result of the whole update_contact_list.
C28_Step ==
    (phase = "serving" /\ tasks' # tasks) =>
        /\ EdgesAgree(DBnext)
        /\ \A i \in DOMAIN tasks :
             (tasks[i].pc = "update" /\ tasks'[i].pc = "done") =>
                 DBnext \in update_contact_list(
                                DB, tasks[i].req.pubkey,
                                follows_from_event(tasks[i].req.tags))
        /\ (\A i \in DOMAIN tasks : tasks[i].pc \in {"append", "update"}
                                      => tasks'[i] = tasks[i])
             => DBnext = DB

C28_UpdateUnderLock == [][C28_Step]_vars

\* A contact list that changed the followees of its author has been applied
\* while another request was between two of its lock acquisitions.
C28_Witness ==
    \E i \in DOMAIN tasks : \E j \in DOMAIN tasks \ {i} :
        /\ tasks[i].pc = "done"
        /\ tasks[i].req.kind = ContactListKind
        /\ tasks[i].reply = Permit
        /\ follows[tasks[i].req.pubkey] \cap TaskContacts # {}
        /\ tasks[j].pc \in {"check", "append", "update"}

\* C31: a request answered Deny leaves the four tables as they were, and a
\* request that changes a table is answered Permit.
C31_Step ==
    AdmitStep =>
        /\ reply'.decision = "Deny" => DBnext = DB
        /\ DBnext # DB => reply'.decision = "Permit"

C31_OnlyPermitWrites == [][C31_Step]_vars

\* C32: from every state the service reaches, update_contact_list(u, S)
\* ends in one account table, in whatever order the sweep visits the added
\* and removed identities and their followees.
C32_OrderIndependent ==
    phase = "serving" =>
        \A u \in Ids, S \in ContactSets :
            \A d1 \in update_contact_list(DB, u, S) :
                \A d2 \in update_contact_list(DB, u, S) :
                    d1.account = d2.account

====
